---- MODULE Spec2Model ----
(***************************************************************************)
(* A model of simple-redis: the RESP frame codec (src/resp), the command   *)
(* layer (src/cmd) and the connection loop (src/network.rs).               *)
(*                                                                         *)
(* Bytes are their numeric values, a buffer is a sequence of bytes.  Rust  *)
(* indexes from 0 and TLA+ sequences from 1: the operators keep the Rust   *)
(* index values (end, len, total) and add 1 where they index a sequence.   *)
(* The byte universe of the model is ASCII plus 255 (a byte that is valid  *)
(* nowhere in UTF-8).                                                      *)
(***************************************************************************)
EXTENDS Integers, Sequences, FiniteSets, TLC

\* ------------------------------------------------------------------------
\* Byte values of the literals the codec uses
\* ------------------------------------------------------------------------
CR == 13
LF == 10
PLUS == 43
MINUS == 45
COLON == 58
DOLLAR == 36
STAR == 42
UNDERSCORE == 95
HASH == 35
COMMA == 44
PERCENT == 37
TILDE == 126
CH_t == 116
CH_f == 102
CH_0 == 48
CH_1 == 49

CRLF == <<CR, LF>>
CRLF_LEN == Len(CRLF)

NULL_BULK_STRING == <<DOLLAR, MINUS, CH_1, CR, LF>>
NULL_ARRAY == <<STAR, MINUS, CH_1, CR, LF>>
NULL == <<UNDERSCORE, CR, LF>>
BOOL_TRUE == <<HASH, CH_t, CR, LF>>
BOOL_FALSE == <<HASH, CH_f, CR, LF>>

\* ------------------------------------------------------------------------
\* Slices of a buffer
\* ------------------------------------------------------------------------
\* buf.advance(n) / &buf[n..]
Advance(buf, n) == SubSeq(buf, n + 1, Len(buf))

\* &buf[from..to]
Slice(buf, from, to) == SubSeq(buf, from + 1, to)

\* buf.starts_with(p)
StartsWith(buf, p) == Len(buf) >= Len(p) /\ SubSeq(buf, 1, Len(p)) = p

SetMin(S) == CHOOSE x \in S : \A y \in S : x <= y

\* ------------------------------------------------------------------------
\* Frames: one record shape per variant of RespFrame
\* ------------------------------------------------------------------------
SimpleString(s) == [t |-> "SimpleString", s |-> s]
SimpleError(s) == [t |-> "Error", s |-> s]
Integer(n) == [t |-> "Integer", n |-> n]
BulkString(b) == [t |-> "BulkString", b |-> b]
RespNullBulkString == [t |-> "NullBulkString"]
RespArray(a) == [t |-> "Array", a |-> a]
RespNullArray == [t |-> "NullArray"]
RespNull == [t |-> "Null"]
Boolean(v) == [t |-> "Boolean", v |-> v]
Double(x) == [t |-> "Double", x |-> x]
RespMap(m) == [t |-> "Map", m |-> m]
RespSet(a) == [t |-> "Set", a |-> a]

NoFrame == [t |-> "None"]

\* ------------------------------------------------------------------------
\* Text conversions
\* ------------------------------------------------------------------------
\* format!("{}", n) for n >= 0
RECURSIVE FormatUnsigned(_)
FormatUnsigned(n) ==
    IF n < 10 THEN <<CH_0 + n>>
    ELSE FormatUnsigned(n \div 10) \o <<CH_0 + (n % 10)>>

\* format!("{}", n) for a signed n
FormatSigned(n) ==
    IF n < 0 THEN <<MINUS>> \o FormatUnsigned(0 - n) ELSE FormatUnsigned(n)

IsDigit(b) == b >= CH_0 /\ b <= CH_0 + 9

RECURSIVE DigitsValue(_)
DigitsValue(s) ==
    IF s = <<>> THEN 0
    ELSE 10 * DigitsValue(SubSeq(s, 1, Len(s) - 1)) + (s[Len(s)] - CH_0)

AllDigits(s) == s # <<>> /\ \A i \in 1..Len(s) : IsDigit(s[i])

\* str::parse::<usize>(): an optional '+' and at least one digit
ParseUsize(s) ==
    LET d == IF s # <<>> /\ s[1] = PLUS THEN Tail(s) ELSE s
    IN  IF AllDigits(d) THEN [kind |-> "Ok", n |-> DigitsValue(d)]
        ELSE [kind |-> "ParseIntError", n |-> 0]

\* str::parse::<i64>(): an optional '+' or '-' and at least one digit
ParseI64(s) ==
    LET neg == s # <<>> /\ s[1] = MINUS
        d == IF s # <<>> /\ s[1] \in {PLUS, MINUS} THEN Tail(s) ELSE s
    IN  IF AllDigits(d)
        THEN [kind |-> "Ok", n |-> IF neg THEN 0 - DigitsValue(d) ELSE DigitsValue(d)]
        ELSE [kind |-> "ParseIntError", n |-> 0]

\* u8::to_ascii_lowercase
LowerByte(b) == IF b >= 65 /\ b <= 90 THEN b + 32 ELSE b

\* <[u8]>::to_ascii_lowercase
to_ascii_lowercase(s) == [i \in 1..Len(s) |-> LowerByte(s[i])]

\* U+FFFD in UTF-8
REPLACEMENT == <<239, 191, 189>>

\* String::from_utf8_lossy over the byte universe of the model: ASCII is
\* kept, every byte 255 becomes U+FFFD.
RECURSIVE FromUtf8Lossy(_)
FromUtf8Lossy(s) ==
    IF s = <<>> THEN <<>>
    ELSE (IF s[1] < 128 THEN <<s[1]>> ELSE REPLACEMENT) \o FromUtf8Lossy(Tail(s))

\* ------------------------------------------------------------------------
\* Encoders (RespEncode)
\* ------------------------------------------------------------------------
SimpleString_encode(f) == <<PLUS>> \o f.s \o CRLF

SimpleError_encode(f) == <<MINUS>> \o f.s \o CRLF

\* a faulty variant: no sign before a number that is not negative
i64_encode_Unsigned(f) == <<COLON>> \o FormatSigned(f.n) \o CRLF

i64_encode(f) ==
    <<COLON>> \o (IF f.n < 0 THEN <<>> ELSE <<PLUS>>) \o FormatSigned(f.n) \o CRLF

BulkString_encode(f) ==
    <<DOLLAR>> \o FormatUnsigned(Len(f.b)) \o CRLF \o f.b \o CRLF

RespNullBulkString_encode == NULL_BULK_STRING

RespNullArray_encode == NULL_ARRAY

RespNull_encode == NULL

bool_encode(f) == <<HASH>> \o (IF f.v THEN <<CH_t>> ELSE <<CH_f>>) \o CRLF

RECURSIVE RespFrame_encode(_)
RECURSIVE EncodeAll(_)
\* the loop "for frame in self.0 { buf.extend_from_slice(&frame.encode()) }"
EncodeAll(frames) ==
    IF frames = <<>> THEN <<>>
    ELSE RespFrame_encode(Head(frames)) \o EncodeAll(Tail(frames))

RespArray_encode(f) ==
    <<STAR>> \o FormatUnsigned(Len(f.a)) \o CRLF \o EncodeAll(f.a)

RespSet_encode(f) ==
    <<TILDE>> \o FormatUnsigned(Len(f.a)) \o CRLF \o EncodeAll(f.a)

\* enum_dispatch of RespEncode over the variants the model generates
RespFrame_encode(f) ==
    CASE f.t = "SimpleString" -> SimpleString_encode(f)
      [] f.t = "Error" -> SimpleError_encode(f)
      [] f.t = "Integer" -> i64_encode(f)
      [] f.t = "BulkString" -> BulkString_encode(f)
      [] f.t = "NullBulkString" -> RespNullBulkString_encode
      [] f.t = "Array" -> RespArray_encode(f)
      [] f.t = "NullArray" -> RespNullArray_encode
      [] f.t = "Null" -> RespNull_encode
      [] f.t = "Boolean" -> bool_encode(f)
      [] f.t = "Set" -> RespSet_encode(f)

\* ------------------------------------------------------------------------
\* Decoder helpers (src/resp/mod.rs).  A result is a record with a kind:
\* "Ok", one of the RespError variants, or "Panic" for an out-of-range
\* slice, which unwinds the calling task.  Where the code binds a result
\* and goes on (let r = f(..)?; ...), the model passes the result to an
\* operator named after the step that follows.
\* ------------------------------------------------------------------------
Err(kind) == [kind |-> kind, n |-> 0]

Ok(n) == [kind |-> "Ok", n |-> n]

\* Position of the first CRLF (the value named end), or an error.
extract_simple_frame_data(buf, prefix) ==
    IF Len(buf) < 3 THEN Err("NotComplete")
    ELSE IF buf[1] # prefix THEN Err("InvalidFrameType")
    ELSE LET hits == {i \in 0..(Len(buf) - 2) : buf[i + 1] = CR /\ buf[i + 2] = LF}
             end == IF hits = {} THEN 0 ELSE SetMin(hits)
         IN  IF end = 0 THEN Err("NotComplete") ELSE Ok(end)

\* s.parse()? of parse_length, with end in hand
parse_length_number(end, p) ==
    IF p.kind # "Ok" THEN [kind |-> p.kind, end |-> 0, len |-> 0]
    ELSE [kind |-> "Ok", end |-> end, len |-> p.n]

parse_length_header(buf, e) ==
    IF e.kind # "Ok" THEN [kind |-> e.kind, end |-> 0, len |-> 0]
    ELSE parse_length_number(e.n, ParseUsize(FromUtf8Lossy(Slice(buf, 1, e.n))))

\* (end, len) of a length header
parse_length(buf, prefix) ==
    parse_length_header(buf, extract_simple_frame_data(buf, prefix))

\* Outcome of extract_fixed_data: the kind and the buffer afterwards
extract_fixed_data(buf, expect) ==
    IF Len(buf) < Len(expect) THEN [kind |-> "NotComplete", buf |-> buf]
    ELSE IF ~StartsWith(buf, expect) THEN [kind |-> "InvalidFrameType", buf |-> buf]
    ELSE [kind |-> "Ok", buf |-> Advance(buf, Len(expect))]

\* ------------------------------------------------------------------------
\* expect_length: the read-only size probe
\* ------------------------------------------------------------------------
\* Ok(end + CRLF_LEN) of the CRLF-terminated frames
LineLength(e) == IF e.kind # "Ok" THEN e ELSE Ok(e.n + CRLF_LEN)

SimpleString_expect_length(buf) == LineLength(extract_simple_frame_data(buf, PLUS))

SimpleError_expect_length(buf) == LineLength(extract_simple_frame_data(buf, MINUS))

i64_expect_length(buf) == LineLength(extract_simple_frame_data(buf, COLON))

f64_expect_length(buf) == LineLength(extract_simple_frame_data(buf, COMMA))

BulkLength(p) ==
    IF p.kind # "Ok" THEN Err(p.kind) ELSE Ok(p.end + CRLF_LEN + p.len + CRLF_LEN)

BulkString_expect_length(buf) == BulkLength(parse_length(buf, DOLLAR))

RespNullBulkString_expect_length(buf) == Ok(5)

RespNullArray_expect_length(buf) == Ok(5)

bool_expect_length(buf) == Ok(4)

RespNull_expect_length(buf) == Ok(3)

RECURSIVE RespFrame_expect_length(_)
RECURSIVE ElementsLen(_, _, _)
RECURSIVE EntriesLen(_, _, _)

\* "data = &data[len..]; total += len" for the element measured as r;
\* &data[len..] panics when len > data.len().
ElementsStep(data, left, total, r) ==
    IF r.kind # "Ok" THEN r
    ELSE IF r.n > Len(data) THEN Err("Panic")
    ELSE ElementsLen(Advance(data, r.n), left - 1, total + r.n)

\* The "*" | "~" loop of calc_total_len: data is the unread rest, left the
\* elements still to measure.
ElementsLen(data, left, total) ==
    IF left = 0 THEN Ok(total)
    ELSE ElementsStep(data, left, total, RespFrame_expect_length(data))

EntryValueStep(data, left, total, v) ==
    IF v.kind # "Ok" THEN v
    ELSE IF v.n > Len(data) THEN Err("Panic")
    ELSE EntriesLen(Advance(data, v.n), left - 1, total + v.n)

EntryKeyStep(data, left, total, k) ==
    IF k.kind # "Ok" THEN k
    ELSE IF k.n > Len(data) THEN Err("Panic")
    ELSE EntryValueStep(Advance(data, k.n), left, total + k.n,
                        RespFrame_expect_length(Advance(data, k.n)))

\* The "%" loop of calc_total_len: a SimpleString key, then any frame.
EntriesLen(data, left, total) ==
    IF left = 0 THEN Ok(total)
    ELSE EntryKeyStep(data, left, total, SimpleString_expect_length(data))

calc_total_len(buf, end, len, prefix) ==
    IF prefix \in {STAR, TILDE}
    THEN ElementsLen(Advance(buf, end + CRLF_LEN), len, end + CRLF_LEN)
    ELSE IF prefix = PERCENT
    THEN EntriesLen(Advance(buf, end + CRLF_LEN), len, end + CRLF_LEN)
    ELSE Ok(len + CRLF_LEN)

\* expect_length of RespArray, RespSet and RespMap, the header parsed as p
CompositeLength(buf, prefix, p) ==
    IF p.kind # "Ok" THEN Err(p.kind) ELSE calc_total_len(buf, p.end, p.len, prefix)

RespArray_expect_length(buf) == CompositeLength(buf, STAR, parse_length(buf, STAR))

RespSet_expect_length(buf) == CompositeLength(buf, TILDE, parse_length(buf, TILDE))

RespMap_expect_length(buf) == CompositeLength(buf, PERCENT, parse_length(buf, PERCENT))

RespFrame_expect_length(buf) ==
    IF buf = <<>> THEN Err("NotComplete")
    ELSE CASE buf[1] = STAR -> RespArray_expect_length(buf)
           [] buf[1] = TILDE -> RespSet_expect_length(buf)
           [] buf[1] = PERCENT -> RespMap_expect_length(buf)
           [] buf[1] = DOLLAR -> BulkString_expect_length(buf)
           [] buf[1] = COLON -> i64_expect_length(buf)
           [] buf[1] = PLUS -> SimpleString_expect_length(buf)
           [] buf[1] = MINUS -> SimpleError_expect_length(buf)
           [] buf[1] = HASH -> bool_expect_length(buf)
           [] buf[1] = COMMA -> f64_expect_length(buf)
           [] buf[1] = UNDERSCORE -> RespNull_expect_length(buf)
           [] OTHER -> Err("NotComplete")

\* ------------------------------------------------------------------------
\* decode: a result is [kind, frame, buf], buf being the buffer afterwards
\* ------------------------------------------------------------------------
Failed(kind, buf) == [kind |-> kind, frame |-> NoFrame, buf |-> buf]

Decoded(frame, buf) == [kind |-> "Ok", frame |-> frame, buf |-> buf]

\* split_to(end + CRLF_LEN) and the text between the prefix and end
SimpleStringLine(buf, e) ==
    IF e.kind # "Ok" THEN Failed(e.kind, buf)
    ELSE Decoded(SimpleString(FromUtf8Lossy(Slice(buf, 1, e.n))),
                 Advance(buf, e.n + CRLF_LEN))

SimpleString_decode(buf) == SimpleStringLine(buf, extract_simple_frame_data(buf, PLUS))

SimpleErrorLine(buf, e) ==
    IF e.kind # "Ok" THEN Failed(e.kind, buf)
    ELSE Decoded(SimpleError(FromUtf8Lossy(Slice(buf, 1, e.n))),
                 Advance(buf, e.n + CRLF_LEN))

SimpleError_decode(buf) == SimpleErrorLine(buf, extract_simple_frame_data(buf, MINUS))

i64_parsed(rest, p) ==
    IF p.kind # "Ok" THEN Failed(p.kind, rest) ELSE Decoded(Integer(p.n), rest)

\* split_to comes before the parse: a text that is no number is consumed
i64_line(buf, e) ==
    IF e.kind # "Ok" THEN Failed(e.kind, buf)
    ELSE i64_parsed(Advance(buf, e.n + CRLF_LEN),
                    ParseI64(FromUtf8Lossy(Slice(buf, 1, e.n))))

i64_decode(buf) == i64_line(buf, extract_simple_frame_data(buf, COLON))

\* "inf", "infinity", "nan"
FLOAT_WORDS ==
    {<<105, 110, 102>>, <<105, 110, 102, 105, 110, 105, 116, 121>>, <<110, 97, 110>>}

\* str::parse::<f64>() accepts [sign] digits [. digits] [e [sign] digits]
\* with a digit in the mantissa, and the words above in any case; the frame
\* keeps the literal.
IsFloatText(s) ==
    LET body == IF s # <<>> /\ s[1] \in {PLUS, MINUS} THEN Tail(s) ELSE s
        es == {i \in 1..Len(body) : body[i] \in {69, 101}}
        cut == IF es = {} THEN Len(body) + 1 ELSE SetMin(es)
        mant == SubSeq(body, 1, cut - 1)
        expo == SubSeq(body, cut + 1, Len(body))
        exd == IF expo # <<>> /\ expo[1] \in {PLUS, MINUS} THEN Tail(expo) ELSE expo
        dots == {i \in 1..Len(mant) : mant[i] = 46}
    IN  \/ to_ascii_lowercase(body) \in FLOAT_WORDS
        \/ /\ Cardinality(dots) <= 1
           /\ \E i \in 1..Len(mant) : IsDigit(mant[i])
           /\ \A i \in 1..Len(mant) : IsDigit(mant[i]) \/ mant[i] = 46
           /\ (es # {} => AllDigits(exd))

f64_parsed(rest, text) ==
    IF IsFloatText(text) THEN Decoded(Double(text), rest)
    ELSE Failed("ParseFloatError", rest)

f64_line(buf, e) ==
    IF e.kind # "Ok" THEN Failed(e.kind, buf)
    ELSE f64_parsed(Advance(buf, e.n + CRLF_LEN), FromUtf8Lossy(Slice(buf, 1, e.n)))

f64_decode(buf) == f64_line(buf, extract_simple_frame_data(buf, COMMA))

\* first CRLF of s at or after its start, as a count of bytes before it
RECURSIVE UpToCRLF(_)
UpToCRLF(s) ==
    IF Len(s) < CRLF_LEN THEN Len(s)
    ELSE IF SubSeq(s, 1, CRLF_LEN) = CRLF THEN 0
    ELSE 1 + UpToCRLF(Tail(s))

\* a faulty variant: the payload ends at the first CRLF behind the header
BulkStringPayload_ToCRLF(buf, p, remained) ==
    IF Len(remained) < p.len + CRLF_LEN THEN Failed("NotComplete", buf)
    ELSE Decoded(BulkString(SubSeq(remained, 1, UpToCRLF(remained))),
                 Advance(remained, UpToCRLF(remained) + CRLF_LEN))

\* remained is &buf[end + CRLF_LEN..]
BulkStringPayload(buf, p, remained) ==
    IF Len(remained) < p.len + CRLF_LEN THEN Failed("NotComplete", buf)
    ELSE Decoded(BulkString(SubSeq(remained, 1, p.len)),
                 Advance(remained, p.len + CRLF_LEN))

BulkStringHeader(buf, p) ==
    IF p.kind # "Ok" THEN Failed(p.kind, buf)
    ELSE BulkStringPayload(buf, p, Advance(buf, p.end + CRLF_LEN))

BulkString_decode(buf) == BulkStringHeader(buf, parse_length(buf, DOLLAR))

\* the frame when extract_fixed_data succeeded, its error otherwise
Fixed(r, frame) ==
    IF r.kind # "Ok" THEN Failed(r.kind, r.buf) ELSE Decoded(frame, r.buf)

RespNullBulkString_decode(buf) ==
    Fixed(extract_fixed_data(buf, NULL_BULK_STRING), RespNullBulkString)

RespNullArray_decode(buf) == Fixed(extract_fixed_data(buf, NULL_ARRAY), RespNullArray)

RespNull_decode(buf) == Fixed(extract_fixed_data(buf, NULL), RespNull)

bool_second(f) == Fixed(f, Boolean(FALSE))

bool_first(buf, t) ==
    IF t.kind = "Ok" THEN Decoded(Boolean(TRUE), t.buf)
    ELSE bool_second(extract_fixed_data(buf, BOOL_FALSE))

bool_decode(buf) == bool_first(buf, extract_fixed_data(buf, BOOL_TRUE))

RECURSIVE RespFrame_decode(_)
RECURSIVE DecodeElements(_, _, _)
RECURSIVE DecodeEntries(_, _, _)

ElementDecoded(left, frames, r) ==
    IF r.kind # "Ok" THEN [kind |-> r.kind, frames |-> <<>>, buf |-> r.buf]
    ELSE DecodeElements(r.buf, left - 1, Append(frames, r.frame))

\* "for _ in 0..len { frames.push(RespFrame::decode(buf)?) }": an error of
\* an element is returned with the buffer as that element left it.
DecodeElements(buf, left, frames) ==
    IF left = 0 THEN [kind |-> "Ok", frames |-> frames, buf |-> buf]
    ELSE ElementDecoded(left, frames, RespFrame_decode(buf))

EntryValueDecoded(left, m, key, v) ==
    IF v.kind # "Ok" THEN [kind |-> v.kind, m |-> m, buf |-> v.buf]
    ELSE DecodeEntries(v.buf, left - 1, (key :> v.frame) @@ m)

EntryKeyDecoded(left, m, k) ==
    IF k.kind # "Ok" THEN [kind |-> k.kind, m |-> m, buf |-> k.buf]
    ELSE EntryValueDecoded(left, m, k.frame.s, RespFrame_decode(k.buf))

\* The loop of RespMap::decode; insert overwrites an equal key.
DecodeEntries(buf, left, m) ==
    IF left = 0 THEN [kind |-> "Ok", m |-> m, buf |-> buf]
    ELSE EntryKeyDecoded(left, m, SimpleString_decode(buf))

ArrayElements(r) ==
    IF r.kind # "Ok" THEN Failed(r.kind, r.buf) ELSE Decoded(RespArray(r.frames), r.buf)

SetElements(r) ==
    IF r.kind # "Ok" THEN Failed(r.kind, r.buf) ELSE Decoded(RespSet(r.frames), r.buf)

MapEntries(r) ==
    IF r.kind # "Ok" THEN Failed(r.kind, r.buf) ELSE Decoded(RespMap(r.m), r.buf)

\* "if buf.len() < total_len { NotComplete }; buf.advance(end + CRLF_LEN)"
\* and the loop over the elements, the total measured as c
CompositeBody(buf, prefix, p, c) ==
    IF c.kind # "Ok" THEN Failed(c.kind, buf)
    ELSE IF Len(buf) < c.n THEN Failed("NotComplete", buf)
    ELSE IF prefix = STAR
    THEN ArrayElements(DecodeElements(Advance(buf, p.end + CRLF_LEN), p.len, <<>>))
    ELSE IF prefix = TILDE
    THEN SetElements(DecodeElements(Advance(buf, p.end + CRLF_LEN), p.len, <<>>))
    ELSE MapEntries(DecodeEntries(Advance(buf, p.end + CRLF_LEN), p.len, <<>>))

CompositeHeader(buf, prefix, p) ==
    IF p.kind # "Ok" THEN Failed(p.kind, buf)
    ELSE CompositeBody(buf, prefix, p, calc_total_len(buf, p.end, p.len, prefix))

RespArray_decode(buf) == CompositeHeader(buf, STAR, parse_length(buf, STAR))

RespSet_decode(buf) == CompositeHeader(buf, TILDE, parse_length(buf, TILDE))

RespMap_decode(buf) == CompositeHeader(buf, PERCENT, parse_length(buf, PERCENT))

\* The '$' arm after its sentinel probe n: BulkString::decode on a mismatch
DollarArm(n) ==
    IF n.kind = "Ok" THEN n
    ELSE IF n.kind = "NotComplete" THEN Failed("NotComplete", n.buf)
    ELSE BulkString_decode(n.buf)

\* The '*' arm after its sentinel probe n: RespArray::decode on a mismatch
StarArm(n) ==
    IF n.kind = "Ok" THEN n
    ELSE IF n.kind = "NotComplete" THEN Failed("NotComplete", n.buf)
    ELSE RespArray_decode(n.buf)

RespFrame_decode(buf) ==
    IF buf = <<>> THEN Failed("NotComplete", buf)
    ELSE CASE buf[1] = PLUS -> SimpleString_decode(buf)
           [] buf[1] = MINUS -> SimpleError_decode(buf)
           [] buf[1] = COLON -> i64_decode(buf)
           [] buf[1] = DOLLAR -> DollarArm(RespNullArray_decode(buf))
           [] buf[1] = STAR -> StarArm(RespNullArray_decode(buf))
           [] buf[1] = UNDERSCORE -> RespNull_decode(buf)
           [] buf[1] = HASH -> bool_decode(buf)
           [] buf[1] = COMMA -> f64_decode(buf)
           [] buf[1] = PERCENT -> RespMap_decode(buf)
           [] buf[1] = TILDE -> RespSet_decode(buf)
           [] OTHER -> Failed("InvalidFrameType", buf)

\* ------------------------------------------------------------------------
\* Commands (src/cmd/mod.rs): one record shape per variant of Command
\* ------------------------------------------------------------------------
Get(key) == [name |-> "Get", key |-> key]
Set(key, value) == [name |-> "Set", key |-> key, value |-> value]
HGet(key, field) == [name |-> "HGet", key |-> key, field |-> field]
HSet(key, field, value) ==
    [name |-> "HSet", key |-> key, field |-> field, value |-> value]
HGetAll(key, sort) == [name |-> "HGetAll", key |-> key, sort |-> sort]
Unrecognized == [name |-> "Unrecognized"]

NoCommand == [name |-> "None"]

\* RESP_OK
RESP_OK == SimpleString(<<79, 75>>)

\* the command names as validate_command is given them
NAME_GET == <<103, 101, 116>>
NAME_SET == <<115, 101, 116>>
NAME_HGET == <<72, 71, 69, 84>>
NAME_HSET == <<72, 83, 69, 84>>
NAME_HGETALL == <<72, 71, 69, 84, 65, 76, 76>>

\* u8::is_ascii_whitespace
IsAsciiWhitespace(b) == b \in {9, 10, 12, 13, 32}

\* <[u8]>::trim_ascii
trim_ascii(s) ==
    LET keep == {i \in 1..Len(s) : ~IsAsciiWhitespace(s[i])}
    IN  IF keep = {} THEN <<>>
        ELSE SubSeq(s, SetMin(keep), CHOOSE i \in keep : \A j \in keep : j <= i)

\* String::from_utf8 succeeds: over the byte universe of the model a text
\* is UTF-8 when it is ASCII but for whole U+FFFD sequences
RECURSIVE IsUtf8(_)
IsUtf8(s) ==
    IF s = <<>> THEN TRUE
    ELSE IF s[1] < 128 THEN IsUtf8(Tail(s))
    ELSE StartsWith(s, REPLACEMENT) /\ IsUtf8(Advance(s, Len(REPLACEMENT)))

CmdErr(kind) == [kind |-> kind, cmd |-> NoCommand]

CmdOk(cmd) == [kind |-> "Ok", cmd |-> cmd]

IsBulk(f) == f.t = "BulkString"

\* a faulty variant: arrays longer than the command's pass
validate_command_AtLeast(value, name, n_args) ==
    IF Len(value) < n_args + 1 THEN "InvalidCommandArguments"
    ELSE IF ~IsBulk(value[1]) THEN "InvalidCommand"
    ELSE IF to_ascii_lowercase(value[1].b) # to_ascii_lowercase(name) THEN "InvalidCommand"
    ELSE "Ok"

\* a faulty variant: the name sent is compared as it was written
validate_command_AsWritten(value, name, n_args) ==
    IF Len(value) # n_args + 1 THEN "InvalidCommandArguments"
    ELSE IF ~IsBulk(value[1]) THEN "InvalidCommand"
    ELSE IF value[1].b # to_ascii_lowercase(name) THEN "InvalidCommand"
    ELSE "Ok"

\* value is the sequence of frames of the array; "Ok" or a CommandError
validate_command(value, name, n_args) ==
    IF Len(value) # n_args + 1 THEN "InvalidCommandArguments"
    ELSE IF ~IsBulk(value[1]) THEN "InvalidCommand"
    ELSE IF to_ascii_lowercase(value[1].b) # to_ascii_lowercase(name) THEN "InvalidCommand"
    ELSE "Ok"

\* value.iter().skip(start).cloned().collect()
extract_args(value, start) == SubSeq(value, start + 1, Len(value))

\* TryFrom<RespArray> for Get, after validate_command returned valid
Get_args(valid, args) ==
    IF valid # "Ok" THEN CmdErr(valid)
    ELSE IF ~IsBulk(args[1]) THEN CmdErr("InvalidCommand")
    ELSE IF ~IsUtf8(args[1].b) THEN CmdErr("FromUtf8Error")
    ELSE CmdOk(Get(args[1].b))

Get_try_from(value) ==
    Get_args(validate_command(value, NAME_GET, 1), extract_args(value, 1))

Set_args(valid, args) ==
    IF valid # "Ok" THEN CmdErr(valid)
    ELSE IF ~IsBulk(args[1]) THEN CmdErr("InvalidCommand")
    ELSE IF ~IsUtf8(args[1].b) THEN CmdErr("FromUtf8Error")
    ELSE CmdOk(Set(args[1].b, args[2]))

Set_try_from(value) ==
    Set_args(validate_command(value, NAME_SET, 2), extract_args(value, 1))

HGet_args(valid, args) ==
    IF valid # "Ok" THEN CmdErr(valid)
    ELSE IF ~(IsBulk(args[1]) /\ IsBulk(args[2])) THEN CmdErr("InvalidCommand")
    ELSE IF ~(IsUtf8(args[1].b) /\ IsUtf8(args[2].b)) THEN CmdErr("FromUtf8Error")
    ELSE CmdOk(HGet(args[1].b, args[2].b))

HGet_try_from(value) ==
    HGet_args(validate_command(value, NAME_HGET, 2), extract_args(value, 1))

\* a faulty variant: the command parsed asks for the sorted order
HGetAll_args_Sorted(valid, args) ==
    IF valid # "Ok" THEN CmdErr(valid)
    ELSE IF ~IsBulk(args[1]) THEN CmdErr("InvalidCommand")
    ELSE IF ~IsUtf8(args[1].b) THEN CmdErr("FromUtf8Error")
    ELSE CmdOk(HGetAll(args[1].b, TRUE))

HGetAll_args(valid, args) ==
    IF valid # "Ok" THEN CmdErr(valid)
    ELSE IF ~IsBulk(args[1]) THEN CmdErr("InvalidCommand")
    ELSE IF ~IsUtf8(args[1].b) THEN CmdErr("FromUtf8Error")
    ELSE CmdOk(HGetAll(args[1].b, FALSE))

HGetAll_try_from(value) ==
    HGetAll_args(validate_command(value, NAME_HGETALL, 1), extract_args(value, 1))

HSet_args(valid, args) ==
    IF valid # "Ok" THEN CmdErr(valid)
    ELSE IF ~(IsBulk(args[1]) /\ IsBulk(args[2])) THEN CmdErr("InvalidCommand")
    ELSE IF ~(IsUtf8(args[1].b) /\ IsUtf8(args[2].b)) THEN CmdErr("FromUtf8Error")
    ELSE CmdOk(HSet(args[1].b, args[2].b, args[3]))

HSet_try_from(value) ==
    HSet_args(validate_command(value, NAME_HSET, 3), extract_args(value, 1))

\* the match on cmd_str.to_ascii_lowercase()
Command_dispatch(value, cmd_str) ==
    CASE cmd_str = to_ascii_lowercase(NAME_GET) -> Get_try_from(value)
      [] cmd_str = to_ascii_lowercase(NAME_SET) -> Set_try_from(value)
      [] cmd_str = to_ascii_lowercase(NAME_HGET) -> HGet_try_from(value)
      [] cmd_str = to_ascii_lowercase(NAME_HSET) -> HSet_try_from(value)
      [] cmd_str = to_ascii_lowercase(NAME_HGETALL) -> HGetAll_try_from(value)
      [] OTHER -> CmdOk(Unrecognized)

\* TryFrom<RespArray> for Command
Command_try_from_array(value) ==
    IF value = <<>> THEN CmdErr("InvalidCommand")
    ELSE IF ~IsBulk(value[1]) THEN CmdErr("InvalidCommand")
    ELSE Command_dispatch(value,
                          to_ascii_lowercase(FromUtf8Lossy(trim_ascii(value[1].b))))

\* TryFrom<RespFrame> for Command
Command_try_from(frame) ==
    IF frame.t = "Array" THEN Command_try_from_array(frame.a)
    ELSE CmdErr("InvalidCommand")

\* ------------------------------------------------------------------------
\* Storage backend: the five operations of the contract, each one atomic
\* step over the two shared maps (kv: key -> frame, hmap: key -> field ->
\* frame).  A map is a function whose domain is the set of present keys.
\* ------------------------------------------------------------------------
EmptyMap == [k \in {} |-> NoFrame]

Some(v) == [some |-> TRUE, v |-> v]

None == [some |-> FALSE]

unwrap_or(opt, default) == IF opt.some THEN opt.v ELSE default

Backend_get(m, key) == IF key \in DOMAIN m THEN Some(m[key]) ELSE None

Backend_set(m, key, value) == (key :> value) @@ m

Backend_hget(h, key, field) ==
    IF key \in DOMAIN h /\ field \in DOMAIN h[key] THEN Some(h[key][field])
    ELSE None

Backend_hset(h, key, field, value) ==
    (key :> ((field :> value) @@ (IF key \in DOMAIN h THEN h[key] ELSE EmptyMap))) @@ h

Backend_hgetall(h, key) == IF key \in DOMAIN h THEN Some(h[key]) ELSE None

\* ------------------------------------------------------------------------
\* Command execution (src/cmd/map.rs, src/cmd/hmap.rs)
\* ------------------------------------------------------------------------
\* faulty variants of the executors, which the properties of the commands
\* must tell from the executors themselves
Get_execute_NullBulk(cmd, m) == unwrap_or(Backend_get(m, cmd.key), RespNullBulkString)

Set_execute_KeepFirst(cmd, m) ==
    [resp |-> RESP_OK,
     kv |-> IF cmd.key \in DOMAIN m THEN m ELSE Backend_set(m, cmd.key, cmd.value)]

HSet_execute_Replace(cmd, h) ==
    [resp |-> RESP_OK, hmap |-> (cmd.key :> (cmd.field :> cmd.value)) @@ h]

flat_map_Swapped(data) ==
    [i \in 1..(2 * Len(data)) |->
        IF i % 2 = 1 THEN data[(i + 1) \div 2][2]
        ELSE BulkString(data[i \div 2][1])]

HGetAll_data_Unsorted(sort, data) == data

collect_pairs_Twice(snapshot, order) ==
    [i \in 1..(2 * Len(order)) |->
        <<order[(i + 1) \div 2], snapshot[order[(i + 1) \div 2]]>>]

Get_execute(cmd, m) == unwrap_or(Backend_get(m, cmd.key), RespNull)

\* a faulty variant: the write drops every other key
Set_execute_Clearing(cmd, m) == [resp |-> RESP_OK, kv |-> (cmd.key :> cmd.value)]

Set_execute(cmd, m) ==
    [resp |-> RESP_OK, kv |-> Backend_set(m, cmd.key, cmd.value)]

HGet_execute(cmd, h) == unwrap_or(Backend_hget(h, cmd.key, cmd.field), RespNull)

HSet_execute(cmd, h) ==
    [resp |-> RESP_OK, hmap |-> Backend_hset(h, cmd.key, cmd.field, cmd.value)]

\* Ord for String: byte-wise lexicographic
RECURSIVE cmp(_, _)
cmp(a, b) ==
    IF a = <<>> THEN (IF b = <<>> THEN "Equal" ELSE "Less")
    ELSE IF b = <<>> THEN "Greater"
    ELSE IF a[1] < b[1] THEN "Less"
    ELSE IF a[1] > b[1] THEN "Greater"
    ELSE cmp(Tail(a), Tail(b))

\* x goes behind every pair of the sorted vector whose field is not greater
InsertSorted(x, v) ==
    LET behind == {i \in 1..Len(v) : cmp(x[1], v[i][1]) = "Less"}
        at == IF behind = {} THEN Len(v) + 1 ELSE SetMin(behind)
    IN  SubSeq(v, 1, at - 1) \o <<x>> \o SubSeq(v, at, Len(v))

\* data.sort_by(|a, b| a.0.cmp(&b.0)): a stable sort on the field
RECURSIVE sort_by(_)
sort_by(data) ==
    IF data = <<>> THEN <<>>
    ELSE InsertSorted(data[Len(data)], sort_by(SubSeq(data, 1, Len(data) - 1)))

\* the loop over hmap.iter(): order is the order in which the snapshot
\* yields its fields
collect_pairs(snapshot, order) ==
    [i \in 1..Len(order) |-> <<order[i], snapshot[order[i]]>>]

\* flat_map(|(k, v)| vec![BulkString::new(k), v])
flat_map(data) ==
    [i \in 1..(2 * Len(data)) |->
        IF i % 2 = 1 THEN BulkString(data[(i + 1) \div 2][1])
        ELSE data[i \div 2][2]]

HGetAll_data(sort, data) == IF sort THEN sort_by(data) ELSE data

HGetAll_match(cmd, opt, order) ==
    IF opt.some
    THEN RespArray(flat_map(HGetAll_data(cmd.sort, collect_pairs(opt.v, order))))
    ELSE RespNull

HGetAll_execute(cmd, h, order) ==
    HGetAll_match(cmd, Backend_hgetall(h, cmd.key), order)

Unrecognized_execute == RESP_OK

\* what one execution leaves behind
Outcome(resp, m, h) == [resp |-> resp, kv |-> m, hmap |-> h]

SetOutcome(r, h) == Outcome(r.resp, r.kv, h)

HSetOutcome(r, m) == Outcome(r.resp, m, r.hmap)

\* a faulty variant: one map of keys, a SET of a key replaces its hash
Command_execute_OneMap(cmd, m, h, order) ==
    CASE cmd.name = "Get" -> Outcome(Get_execute(cmd, m), m, h)
      [] cmd.name = "Set" ->
            Outcome(RESP_OK, Backend_set(m, cmd.key, cmd.value),
                    [k \in DOMAIN h \ {cmd.key} |-> h[k]])
      [] cmd.name = "HGet" -> Outcome(HGet_execute(cmd, h), m, h)
      [] cmd.name = "HSet" -> HSetOutcome(HSet_execute(cmd, h), m)
      [] cmd.name = "HGetAll" -> Outcome(HGetAll_execute(cmd, h, order), m, h)
      [] cmd.name = "Unrecognized" -> Outcome(Unrecognized_execute, m, h)

\* enum_dispatch of CommandExecutor over Command
Command_execute(cmd, m, h, order) ==
    CASE cmd.name = "Get" -> Outcome(Get_execute(cmd, m), m, h)
      [] cmd.name = "Set" -> SetOutcome(Set_execute(cmd, m), h)
      [] cmd.name = "HGet" -> Outcome(HGet_execute(cmd, h), m, h)
      [] cmd.name = "HSet" -> HSetOutcome(HSet_execute(cmd, h), m)
      [] cmd.name = "HGetAll" -> Outcome(HGetAll_execute(cmd, h, order), m, h)
      [] cmd.name = "Unrecognized" -> Outcome(Unrecognized_execute, m, h)

\* every order in which a set of fields can be yielded
Orders(S) ==
    {o \in [1..Cardinality(S) -> S] : \A i, j \in 1..Cardinality(S) : o[i] = o[j] => i = j}

\* the orders in which the hash read by cmd can be iterated
IterOrders(h, cmd) ==
    IF cmd.name = "HGetAll" /\ cmd.key \in DOMAIN h THEN Orders(DOMAIN h[cmd.key])
    ELSE {<<>>}

\* ------------------------------------------------------------------------
\* Bounds of the frame universe
\* ------------------------------------------------------------------------
\* longest SimpleString / SimpleError text
MaxText == 1
\* longest BulkString payload
MaxBulk == 2
\* integers are 0 and +-10^k for k < MaxDigits
MaxDigits == 2
\* most frame nodes in one frame (a composite counts itself and its elements)
MaxWeight == 3

TextBytes == {97}
BulkBytes == {97, CR, LF}

SeqsUpTo(S, n) == UNION {[1..k -> S] : k \in 0..n}

RECURSIVE Pow10(_)
Pow10(k) == IF k = 0 THEN 1 ELSE 10 * Pow10(k - 1)

IntValues == {0} \cup UNION {{Pow10(k), 0 - Pow10(k)} : k \in 0..(MaxDigits - 1)}

Atoms ==
    {SimpleString(s) : s \in SeqsUpTo(TextBytes, MaxText)}
    \cup {SimpleError(s) : s \in SeqsUpTo(TextBytes, MaxText)}
    \cup {Integer(n) : n \in IntValues}
    \cup {BulkString(b) : b \in SeqsUpTo(BulkBytes, MaxBulk)}
    \cup {RespNullBulkString, RespNullArray, RespNull, Boolean(TRUE), Boolean(FALSE)}

\* The atoms that occur as elements of a composite: one of each shape
ElementAtoms ==
    {SimpleString(<<97>>), SimpleError(<<97>>), Integer(0 - 1), BulkString(<<>>),
     BulkString(CRLF), RespNullBulkString, RespNullArray, RespNull, Boolean(TRUE)}

RECURSIVE Weight(_)
RECURSIVE WeightAll(_)
WeightAll(frames) ==
    IF frames = <<>> THEN 0 ELSE Weight(Head(frames)) + WeightAll(Tail(frames))

Weight(f) == IF f.t \in {"Array", "Set"} THEN 1 + WeightAll(f.a) ELSE 1

RECURSIVE Composites(_)
RECURSIVE Forests(_)
\* sequences of elements of total weight <= w
Forests(w) ==
    IF w = 0 THEN {<<>>}
    ELSE {<<>>} \cup UNION {{<<f>> \o r : r \in Forests(w - Weight(f))} :
                            f \in ElementAtoms \cup Composites(w)}

\* Arrays and Sets of weight <= w
Composites(w) ==
    IF w = 0 THEN {}
    ELSE {RespArray(a) : a \in Forests(w - 1)} \cup {RespSet(a) : a \in Forests(w - 1)}

\* The Map-free frames a peer sends
Frames == Atoms \cup Composites(MaxWeight)

\* What follows the frame on the wire: nothing, the first byte of a next
\* frame, a whole next frame.
Tails == {<<>>, <<PLUS>>, NULL}

IsPrefix(p, q) == Len(p) <= Len(q) /\ SubSeq(q, 1, Len(p)) = p

\* ------------------------------------------------------------------------
\* The codec on one connection's read buffer (Decoder for RespFrameCodec):
\* a peer writes encode(sent) ++ tail, the bytes arrive whole or cut once,
\* and decode runs on the buffer as it is.
\*   sent, tail  what the peer writes
\*   wire        the bytes not yet arrived
\*   rbuf        the read buffer
\*   out         the last call of decode: its result, the buffer it was
\*               given and the buffer it left
\* ------------------------------------------------------------------------
VARIABLES sent, tail, wire, rbuf, out,   \* one decoding connection
          kv, hmap,                       \* the two maps of the backend
          lastSet, lastHSet,              \* history: the last value given to SET / HSET
          setBy,                          \* history: the handler that ran the last SET
          called, ret,                    \* a direct caller: its command, the frame it got
          conn,                           \* the connection handlers
          script, served, outbox          \* one peer: what it sent, what the handler
                                          \* took of it, the responses written to it

codecVars == <<sent, tail, wire, rbuf, out>>

storeVars == <<kv, hmap, lastSet, lastHSet, setBy>>

callVars == <<called, ret>>

pipeVars == <<script, served, outbox>>

vars == <<sent, tail, wire, rbuf, out, kv, hmap, lastSet, lastHSet, setBy, called, ret, conn,
          script, served, outbox>>

\* ------------------------------------------------------------------------
\* The keys, fields and values commands are built from
\* ------------------------------------------------------------------------
Keys == {<<104>>, <<107>>}

\* the handlers behind a write of the direct caller, or behind no write
NoTask == {}

Fields == {<<97>>, <<97, 98>>, <<98>>}

Values == {BulkString(<<118>>), RespArray(<<Integer(7), RespNull>>)}

\* Backend::new(): both maps empty; nothing was ever written
StoreInit ==
    /\ kv = EmptyMap
    /\ hmap = EmptyMap
    /\ lastSet = [k \in Keys |-> NoFrame]
    /\ lastHSet = [k \in Keys |-> [f \in Fields |-> NoFrame]]
    /\ setBy = [k \in Keys |-> NoTask]

CallInit == called = NoCommand /\ ret = NoFrame

NumConns == 2

Conns == 1..NumConns

\* a handler spawned by the accept loop, waiting in framed.next()
Accepted == [pc |-> "next", req |-> NoFrame, resp |-> NoFrame, exit |-> "Running"]

ConnInit == conn = [c \in Conns |-> Accepted]

\* no peer is followed
PipeIdle == script = <<>> /\ served = <<>> /\ outbox = <<>>

Written == RespFrame_encode(sent) \o tail

CodecInit ==
    /\ sent \in Frames
    /\ tail \in Tails
    /\ wire = Written
    /\ rbuf = <<>>
    /\ out = [kind |-> "None", frame |-> NoFrame, before |-> <<>>, after |-> <<>>]
    /\ StoreInit /\ CallInit /\ ConnInit /\ PipeIdle

\* a faulty variant: NotComplete ends the task as an error does
Alive_OnFramesOnly == out.kind \in {"None", "Ok"}

\* the task is gone after a panic or an error of the stream
Alive == out.kind \in {"None", "Ok", "NotComplete"}

\* the first k bytes of the peer's write arrive
ReceivePart(k) ==
    /\ Alive
    /\ wire = Written
    /\ k >= 1 /\ k < Len(wire)
    /\ rbuf' = rbuf \o SubSeq(wire, 1, k)
    /\ wire' = Advance(wire, k)
    /\ UNCHANGED <<sent, tail, out, storeVars, callVars, conn, pipeVars>>

\* everything still on the wire arrives
ReceiveRest ==
    /\ Alive
    /\ wire # <<>>
    /\ rbuf' = rbuf \o wire
    /\ wire' = <<>>
    /\ UNCHANGED <<sent, tail, out, storeVars, callVars, conn, pipeVars>>

\* the effect of a decode that returned r
Returned(r) ==
    /\ rbuf' = r.buf
    /\ out' = [kind |-> r.kind, frame |-> r.frame, before |-> rbuf, after |-> r.buf]

\* RespFrameCodec::decode(src)
CodecDecode ==
    /\ Alive
    /\ Returned(RespFrame_decode(rbuf))
    /\ UNCHANGED <<sent, tail, wire, storeVars, callVars, conn, pipeVars>>

CodecNext ==
    \/ \E k \in 1..Len(wire) : ReceivePart(k)
    \/ ReceiveRest
    \/ CodecDecode

SpecCodec == CodecInit /\ [][CodecNext]_vars

\* ------------------------------------------------------------------------
\* Claims about the codec
\* ------------------------------------------------------------------------
Called == out.kind # "None"

Encoded == RespFrame_encode(sent)

\* C1: round trip - a decode on a buffer holding exactly encode(F), F any
\* Map-free frame, returns Ok(F).
C1_RoundTrip ==
    (Called /\ out.before = Encoded) => (out.kind = "Ok" /\ out.frame = sent)

\* C2: incremental completeness - a decode on a proper prefix E[..k] of an
\* encoded frame yields NotComplete (no other error, no panic), and once
\* the rest has been appended to that buffer decode yields what it yields
\* on E whole.
C2_IncrementalCompleteness ==
    /\ (Called /\ Len(out.before) < Len(Encoded) /\ IsPrefix(out.before, Encoded))
          => out.kind = "NotComplete"
    /\ (wire = <<>> /\ out.kind = "NotComplete" /\ Len(out.before) < Len(Encoded))
          => /\ RespFrame_decode(rbuf).kind = RespFrame_decode(Written).kind
             /\ RespFrame_decode(rbuf).frame = RespFrame_decode(Written).frame

\* C3: no consumption on Incomplete - a decode that returns NotComplete
\* leaves the buffer byte for byte as it was given.
C3_NoConsumptionOnIncomplete ==
    out.kind = "NotComplete" => out.after = out.before

\* C4: exact consumption on success - on a buffer E ++ R, E one encoded
\* frame, decode returns Ok(frame of E) and leaves exactly R.
C4_ExactConsumption ==
    (Called /\ IsPrefix(Encoded, out.before))
        => /\ out.kind = "Ok"
           /\ out.frame = sent
           /\ out.after = Advance(out.before, Len(Encoded))

\* ------------------------------------------------------------------------
\* Commands executed directly against the backend, as a caller holding a
\* clone of the handle does
\* ------------------------------------------------------------------------
\* the key and field pairs hash commands are called with: one hash of up
\* to three fields, another of one
Slots == ({<<104>>} \X Fields) \cup {<<<<107>>, <<97>>>>}

Commands ==
    {Get(k) : k \in Keys}
    \cup {Set(k, v) : k \in Keys, v \in Values}
    \cup {HGet(s[1], s[2]) : s \in Slots}
    \cup {HSet(s[1], s[2], v) : s \in Slots, v \in Values}
    \cup {HGetAll(k, b) : k \in Keys, b \in BOOLEAN}
    \cup {Unrecognized}

CodecIdle ==
    /\ sent = NoFrame /\ tail = <<>> /\ wire = <<>> /\ rbuf = <<>>
    /\ out = [kind |-> "None", frame |-> NoFrame, before |-> <<>>, after |-> <<>>]

ExecInit == CodecIdle /\ StoreInit /\ CallInit /\ ConnInit /\ PipeIdle

\* a faulty variant: the execution worked on a copy of the maps
Stored_Copy(r) == UNCHANGED <<kv, hmap>>

\* the maps after an execution
Stored(r) == kv' = r.kv /\ hmap' = r.hmap

\* history: what SET and HSET were last given for each key and field
Remembered(cmd, who) ==
    /\ setBy' = IF cmd.name = "Set" THEN [setBy EXCEPT ![cmd.key] = who] ELSE setBy
    /\ lastSet' = IF cmd.name = "Set" THEN [lastSet EXCEPT ![cmd.key] = cmd.value]
                  ELSE lastSet
    /\ lastHSet' = IF cmd.name = "HSet"
                   THEN [lastHSet EXCEPT ![cmd.key][cmd.field] = cmd.value]
                   ELSE lastHSet

CallReturned(r) == Stored(r) /\ ret' = r.resp

\* cmd.execute(&backend)
Call(cmd, order) ==
    /\ called' = cmd
    /\ CallReturned(Command_execute(cmd, kv, hmap, order))
    /\ Remembered(cmd, NoTask)
    /\ UNCHANGED <<codecVars, conn, pipeVars>>

ExecNext == \E cmd \in Commands : \E order \in IterOrders(hmap, cmd) : Call(cmd, order)

SpecExec == ExecInit /\ [][ExecNext]_vars

\* ------------------------------------------------------------------------
\* The server: connection handlers over clones of one backend handle
\* (src/network.rs).  A handler suspends in framed.next() and in
\* framed.send(); what lies between the two runs without suspension.
\* ------------------------------------------------------------------------
Bulks(names) == [i \in 1..Len(names) |-> BulkString(names[i])]

ReqKey == <<107>>

ReqFields == {<<97>>}

\* the frames a peer sends: the five commands in the spelling the server
\* documents, and requests that are not one of them or are not well formed
RequestFrames ==
    {RespArray(Bulks(<<NAME_GET, ReqKey>>))}
    \cup {RespArray(Bulks(<<NAME_SET, ReqKey>>) \o <<v>>) : v \in Values}
    \cup {RespArray(Bulks(<<NAME_HGET, ReqKey, f>>)) : f \in ReqFields}
    \cup {RespArray(Bulks(<<NAME_HSET, ReqKey, f>>) \o <<v>>) : f \in ReqFields, v \in Values}
    \cup {RespArray(Bulks(<<NAME_HGETALL, ReqKey>>))}
    \cup {RespArray(Bulks(<<<<80, 73, 78, 71>>>>)),
          RespArray(Bulks(<<NAME_GET>>)),
          RespArray(Bulks(<<NAME_GET, <<255>>>>)),
          RespArray(<<BulkString(NAME_GET), Integer(7)>>),
          RespArray(<<>>),
          Integer(7)}

\* handle_connection has returned
Closed(exit) == [pc |-> "closed", req |-> NoFrame, resp |-> NoFrame, exit |-> exit]

Close(c, exit) == conn' = [conn EXCEPT ![c] = Closed(exit)]

\* a faulty variant: the response is on its way before the maps are written
Responded_Early(c, frame, r) ==
    /\ UNCHANGED <<kv, hmap>>
    /\ conn' = [conn EXCEPT ![c] = [pc |-> "send", req |-> frame, resp |-> r.resp,
                                     exit |-> "Running"]]

\* request_handler returned Ok(response); the handler goes on to send it
Responded(c, frame, r) ==
    /\ Stored(r)
    /\ conn' = [conn EXCEPT ![c] = [pc |-> "send", req |-> frame, resp |-> r.resp,
                                     exit |-> "Running"]]

\* a faulty variant: a frame that is no command is passed over
Dispatched_Skipping(c, frame, parsed) ==
    IF parsed.kind # "Ok"
    THEN conn' = [conn EXCEPT ![c] = Accepted] /\ UNCHANGED storeVars
    ELSE /\ \E order \in IterOrders(hmap, parsed.cmd) :
                Responded(c, frame, Command_execute(parsed.cmd, kv, hmap, order))
         /\ Remembered(parsed.cmd, {c})

\* Command::try_from(frame)?, then cmd.execute(&backend)
Dispatched(c, frame, parsed) ==
    IF parsed.kind # "Ok"
    THEN Close(c, parsed.kind) /\ UNCHANGED storeVars
    ELSE /\ \E order \in IterOrders(hmap, parsed.cmd) :
                Responded(c, frame, Command_execute(parsed.cmd, kv, hmap, order))
         /\ Remembered(parsed.cmd, {c})

\* framed.next() yields Some(Ok(frame)); request_handler runs
Serve(c, frame) ==
    /\ conn[c].pc = "next"
    /\ Dispatched(c, frame, Command_try_from(frame))
    /\ UNCHANGED <<codecVars, callVars>>

Handle(c, frame) == Serve(c, frame) /\ UNCHANGED pipeVars

\* framed.send(response.frame) completes; the loop is back in framed.next()
Sent(c) ==
    /\ conn[c].pc = "send"
    /\ conn' = [conn EXCEPT ![c] = Accepted]
    /\ UNCHANGED <<codecVars, storeVars, callVars>>

Send(c) == Sent(c) /\ UNCHANGED pipeVars

\* framed.send(response.frame).await? fails
SendFailed(c) ==
    /\ conn[c].pc = "send"
    /\ Close(c, "Io")
    /\ UNCHANGED <<codecVars, storeVars, callVars>>

SendError(c) == SendFailed(c) /\ UNCHANGED pipeVars

\* framed.next() yields Some(Err(err))
StreamFailed(c) ==
    /\ conn[c].pc = "next"
    /\ Close(c, "RespError")
    /\ UNCHANGED <<codecVars, storeVars, callVars>>

StreamError(c) == StreamFailed(c) /\ UNCHANGED pipeVars

\* framed.next() yields None
StreamEnded(c) ==
    /\ conn[c].pc = "next"
    /\ Close(c, "Ok")
    /\ UNCHANGED <<codecVars, storeVars, callVars>>

StreamEnd(c) == StreamEnded(c) /\ UNCHANGED pipeVars

Init == CodecIdle /\ StoreInit /\ CallInit /\ ConnInit /\ PipeIdle

Next ==
    \E c \in Conns :
        \/ \E frame \in RequestFrames : Handle(c, frame)
        \/ Send(c)
        \/ SendError(c)
        \/ StreamError(c)
        \/ StreamEnd(c)

Spec == Init /\ [][Next]_vars

\* ------------------------------------------------------------------------
\* One connection followed from the peer's side: the peer has sent a script,
\* requests one behind the other in the handler's buffer, and reads the
\* responses.  The handler takes the script item by item.
\* ------------------------------------------------------------------------
Peer == SetMin(Conns)

\* bytes from which RespFrame::decode returns an error other than NotComplete
Malformed == [t |-> "Malformed"]

MaxPipeline == 2

Scripts == SeqsUpTo(RequestFrames \cup {Malformed}, MaxPipeline)

PipeInit ==
    /\ CodecIdle /\ StoreInit /\ CallInit /\ ConnInit
    /\ script \in Scripts
    /\ served = <<>>
    /\ outbox = <<>>

\* the buffer holds something the handler has not taken
Pending == Len(served) < Len(script)

NextItem == script[Len(served) + 1]

\* history: the item taken, the response made for it, how the handler went on
Taken(item) ==
    served' = Append(served, [req |-> item, resp |-> conn'[Peer].resp,
                              exit |-> conn'[Peer].exit])

\* framed.next() decodes the next request of the buffer; request_handler runs
PipeHandle ==
    /\ Pending
    /\ NextItem # Malformed
    /\ Serve(Peer, NextItem)
    /\ Taken(NextItem)
    /\ UNCHANGED <<script, outbox>>

\* framed.next() fails to decode what the buffer holds
PipeStreamError ==
    /\ Pending
    /\ NextItem = Malformed
    /\ StreamFailed(Peer)
    /\ Taken(Malformed)
    /\ UNCHANGED <<script, outbox>>

\* a faulty variant: the response overtakes those written before it
Written_to_peer_First(frame) == outbox' = <<frame>> \o outbox

\* the response is written to the peer
Written_to_peer(frame) == outbox' = Append(outbox, frame)

PipeSend ==
    /\ Sent(Peer)
    /\ Written_to_peer(conn[Peer].resp)
    /\ UNCHANGED <<script, served>>

PipeSendError == SendFailed(Peer) /\ UNCHANGED pipeVars

\* the peer has closed its side and the buffer is used up
PipeStreamEnd ==
    /\ ~Pending
    /\ StreamEnded(Peer)
    /\ UNCHANGED pipeVars

PipeNext ==
    \/ PipeHandle
    \/ PipeSend
    \/ PipeSendError
    \/ PipeStreamError
    \/ PipeStreamEnd

SpecPipe == PipeInit /\ [][PipeNext]_vars

\* ------------------------------------------------------------------------
\* The same connection with a wide choice of the request: after nothing or
\* after a SET and an HSET the peer sends one frame out of every spelling of
\* the command names, every count and kind of arguments, and names that are
\* no command.
\* ------------------------------------------------------------------------
UpperByte(b) == IF b >= 97 /\ b <= 122 THEN b - 32 ELSE b

\* every way to write the letters of name in upper and lower case
RECURSIVE Spellings(_)
Spellings(name) ==
    IF name = <<>> THEN {<<>>}
    ELSE {<<c>> \o rest : c \in {LowerByte(name[1]), UpperByte(name[1])},
                          rest \in Spellings(Tail(name))}

\* the arguments of the documented form of each command
WellFormedArgs(name) ==
    CASE name = NAME_GET -> <<BulkString(ReqKey)>>
      [] name = NAME_SET -> <<BulkString(ReqKey), BulkString(<<118>>)>>
      [] name = NAME_HGET -> <<BulkString(ReqKey), BulkString(<<97>>)>>
      [] name = NAME_HSET -> <<BulkString(ReqKey), BulkString(<<97>>), BulkString(<<118>>)>>
      [] name = NAME_HGETALL -> <<BulkString(ReqKey)>>

CommandNames == {NAME_GET, NAME_SET, NAME_HGET, NAME_HSET, NAME_HGETALL}

SpelledRequests ==
    UNION {{RespArray(<<BulkString(n)>> \o WellFormedArgs(name)) : n \in Spellings(name)} :
           name \in CommandNames}

\* what can stand at the places behind the name
ArgChoices ==
    <<{BulkString(ReqKey), Integer(7), BulkString(<<255>>)},
      {BulkString(<<97>>), Integer(7), BulkString(<<255>>)},
      {BulkString(<<118>>), Integer(7)},
      {BulkString(<<97>>)}>>

RECURSIVE ArgLists(_)
ArgLists(n) ==
    IF n = 0 THEN {<<>>}
    ELSE {Append(l, a) : l \in ArgLists(n - 1), a \in ArgChoices[n]}

AllArgLists == UNION {ArgLists(n) : n \in 0..Len(ArgChoices)}

ShapedRequests ==
    {RespArray(<<BulkString(name)>> \o l) : name \in CommandNames, l \in AllArgLists}

\* PING, the empty name, names next to a command's, a name that is no
\* UTF-8, a command's name with a blank before or behind it
OtherNames ==
    {<<80, 73, 78, 71>>, <<>>, <<103, 101>>, <<103, 101, 116, 115>>, <<255>>,
     <<32, 103, 101, 116>>, <<104, 115, 101, 116, 32>>}

OtherRequests ==
    {RespArray(<<BulkString(n)>> \o l) : n \in OtherNames, l \in ArgLists(0) \cup ArgLists(2)}

WideFrames == SpelledRequests \cup ShapedRequests \cup OtherRequests \cup RequestFrames

Preambles ==
    {<<>>,
     <<RespArray(<<BulkString(NAME_SET)>> \o WellFormedArgs(NAME_SET)),
       RespArray(<<BulkString(NAME_HSET)>> \o WellFormedArgs(NAME_HSET))>>,
     <<RespArray(Bulks(<<NAME_HSET, ReqKey, <<98>>, <<118>>>>)),
       RespArray(Bulks(<<NAME_HSET, ReqKey, <<97>>, <<118>>>>))>>}

ParseInit ==
    /\ CodecIdle /\ StoreInit /\ CallInit /\ ConnInit
    /\ script \in {pre \o <<f>> : pre \in Preambles, f \in WideFrames \cup {Malformed}}
    /\ served = <<>>
    /\ outbox = <<>>

SpecParse == ParseInit /\ [][PipeNext]_vars

\* ------------------------------------------------------------------------
\* Properties of the backend and of the commands
\* ------------------------------------------------------------------------
GetRequest == RespArray(Bulks(<<NAME_GET, ReqKey>>))

\* what a read must see: the frame last written, Null where none was
LastOr(written) == IF written = NoFrame THEN RespNull ELSE written

\* C5: backend atomicity and sharing - once a SET of a key has run on the
\* clone of any handler, a GET of that key by any handler, through its own
\* clone, answers the value of the SET that ran last: one of the values
\* written, whole, never an earlier one.
C5_BackendSharing ==
    [][\A d \in Conns :
          (Handle(d, GetRequest) /\ lastSet[ReqKey] # NoFrame)
              => conn'[d].resp = lastSet[ReqKey]]_vars

\* a handler got from GET the value another handler's SET wrote, after
\* that SET's OK went out
C5_Witness ==
    \E c, d \in Conns :
        /\ c # d
        /\ setBy[ReqKey] = {c}
        /\ conn[c].pc = "next"
        /\ conn[d].pc = "send"
        /\ conn[d].req = GetRequest
        /\ conn[d].resp = lastSet[ReqKey]
        /\ conn[d].resp \in Values

\* C6: GET returns the frame most recently stored under the key by SET, and
\* the Null frame, encoded _\r\n, when the key was never set; on an empty
\* backend every GET returns Null.
C6_GetReturnsLastSet ==
    called.name = "Get" =>
        /\ ret = LastOr(lastSet[called.key])
        /\ lastSet[called.key] = NoFrame => RespFrame_encode(ret) = <<UNDERSCORE, CR, LF>>
        /\ (kv = EmptyMap /\ hmap = EmptyMap) => ret = RespNull

\* a GET answered the frame an earlier SET stored, which is no BulkString
C6_Witness ==
    /\ called.name = "Get"
    /\ lastSet[called.key] # NoFrame
    /\ ret = lastSet[called.key]
    /\ ret.t = "Array"

SetRequest(k, v) == RespArray(Bulks(<<NAME_SET, k>>) \o <<v>>)

\* C7: SET stores the value frame it is given verbatim, whatever its kind,
\* over any earlier value of the key, and returns the SimpleString OK; a GET
\* of the key then returns a frame equal to the one given to SET.  The
\* request parser hands SET the value frame as it came.
C7_SetStoresVerbatim ==
    /\ called.name = "Set" =>
          /\ ret = RESP_OK
          /\ ret = SimpleString(<<79, 75>>)
          /\ Get_execute(Get(called.key), kv) = called.value
    /\ \A k \in Keys, v \in Values :
          Command_try_from(SetRequest(k, v)) = CmdOk(Set(k, v))

\* a SET of a frame that is no BulkString has run and the key holds it
C7_Witness ==
    /\ called.name = "Set"
    /\ called.value.t = "Array"
    /\ ret = RESP_OK
    /\ kv[called.key] = called.value

\* the fields of the hash under key that were ever written
WrittenFields(key) == {f \in Fields : lastHSet[key][f] # NoFrame}

\* C8: HSET returns OK, creates the hash under the key when there is none
\* and sets the field to the value, every other field of the hash keeping
\* the value it had; HGET returns the last value written to the field, and
\* Null both when the key has no hash and when the hash has no such field.
C8_HSetHGet ==
    /\ called.name = "HSet" =>
          /\ ret = RESP_OK
          /\ Backend_hgetall(hmap, called.key).some
          /\ HGet_execute(HGet(called.key, called.field), hmap) = called.value
          /\ \A f \in Fields :
                HGet_execute(HGet(called.key, f), hmap) = LastOr(lastHSet[called.key][f])
    /\ called.name = "HGet" =>
          /\ ret = LastOr(lastHSet[called.key][called.field])
          /\ WrittenFields(called.key) = {} => ret = RespNull
          /\ called.field \notin WrittenFields(called.key) => ret = RespNull

\* an HSET of a second field has run on a hash whose first field holds
\* another value
C8_Witness ==
    /\ called.name = "HSet"
    /\ WrittenFields(called.key) = {<<97>>, called.field}
    /\ called.field # <<97>>
    /\ lastHSet[called.key][<<97>>] # called.value
    /\ hmap[called.key][<<97>>] = lastHSet[called.key][<<97>>]

\* the places of the array at which field stands, followed by value
PairAt(a, field, value) ==
    {i \in 1..(Len(a) \div 2) : a[2 * i - 1] = BulkString(field) /\ a[2 * i] = value}

\* the places of the array at which field stands as a name
NameAt(a, field) == {i \in 1..(Len(a) \div 2) : a[2 * i - 1] = BulkString(field)}

\* C9: HGETALL returns Null when no hash exists under the key; otherwise an
\* Array of exactly 2n frames for a hash of n fields, laid out field, value,
\* field, value, ..., each field of the hash standing exactly once as a
\* BulkString, its stored value right behind it.
C9_HGetAllLayout ==
    called.name = "HGetAll" =>
        IF WrittenFields(called.key) = {} THEN ret = RespNull
        ELSE /\ ret.t = "Array"
             /\ Len(ret.a) = 2 * Cardinality(WrittenFields(called.key))
             /\ \A f \in WrittenFields(called.key) :
                   /\ Cardinality(NameAt(ret.a, f)) = 1
                   /\ PairAt(ret.a, f, lastHSet[called.key][f]) = NameAt(ret.a, f)

\* an unsorted HGETALL of a hash of three fields answered six frames, the
\* greatest field first
C9_Witness ==
    /\ called.name = "HGetAll"
    /\ ~called.sort
    /\ ret.t = "Array"
    /\ Len(ret.a) = 6
    /\ ret.a[1] = BulkString(<<98>>)

\* a is before b in the byte-lexicographic order: a proper prefix of b, or
\* the smaller byte at the first place they differ
ByteLess(a, b) ==
    \/ Len(a) < Len(b) /\ SubSeq(b, 1, Len(a)) = a
    \/ \E p \in 1..Len(a) :
          /\ p <= Len(b)
          /\ SubSeq(a, 1, p - 1) = SubSeq(b, 1, p - 1)
          /\ a[p] < b[p]

\* C10: with the sort flag true the field names of the Array HGETALL
\* returns, its elements at even positions counted from zero, ascend in
\* byte-lexicographic order, whatever the hash holds and in whatever order
\* its fields come out of the map.
C10_HGetAllSorted ==
    (called.name = "HGetAll" /\ called.sort /\ ret.t = "Array") =>
        \A i, j \in 1..(Len(ret.a) \div 2) :
            i < j => ByteLess(ret.a[2 * i - 1].b, ret.a[2 * j - 1].b)

\* a sorted HGETALL of a hash of three fields has answered
C10_Witness ==
    /\ called.name = "HGetAll"
    /\ called.sort
    /\ ret.t = "Array"
    /\ Len(ret.a) = 6
    /\ Cardinality(DOMAIN hmap[called.key]) = 3

HGetAllRequest == RespArray(Bulks(<<NAME_HGETALL, ReqKey>>))

\* every pair of the array is a field with the value the field holds right
\* now, and no field stands in it twice
PairsOfNow(a, key) ==
    /\ \A i \in 1..(Len(a) \div 2) :
          \E f \in WrittenFields(key) :
              a[2 * i - 1] = BulkString(f) /\ a[2 * i] = lastHSet[key][f]
    /\ \A f \in Fields : Cardinality(NameAt(a, f)) <= 1

\* C11: HGETALL coherence - an HGETALL of a key that runs while other
\* connections HSET the same key answers pairs each of which was the
\* content of its field at an instant between the start and the return of
\* the HGETALL (the instant of its step); no pair shows a value never written
\* to the field, no field stands twice.
C11_HGetAllCoherent ==
    [][\A d \in Conns :
          Handle(d, HGetAllRequest) =>
              IF WrittenFields(ReqKey) = {} THEN conn'[d].resp = RespNull
              ELSE /\ conn'[d].resp.t = "Array"
                   /\ Len(conn'[d].resp.a) = 2 * Cardinality(WrittenFields(ReqKey))
                   /\ PairsOfNow(conn'[d].resp.a, ReqKey)]_vars

\* an HGETALL holds its answer, not yet sent, while the HSET of another
\* connection, run after it, has given the field another value
C11_Witness ==
    \E c, d \in Conns :
        /\ c # d
        /\ conn[d].pc = "send" /\ conn[d].req = HGetAllRequest
        /\ conn[d].resp.t = "Array"
        /\ conn[c].pc = "send" /\ conn[c].req.t = "Array"
        /\ conn[c].req.a[1] = BulkString(NAME_HSET)
        /\ conn[d].resp.a[2] # lastHSet[ReqKey][<<97>>]

\* ------------------------------------------------------------------------
\* Properties of the command parser and of the connection loop
\* ------------------------------------------------------------------------
\* name is one of the five command names in some upper and lower case
NamesCommand(name) ==
    \E n \in CommandNames : to_ascii_lowercase(name) = to_ascii_lowercase(n)

\* an Array whose first element is a BulkString
NamedRequest(frame) ==
    /\ frame.t = "Array"
    /\ frame.a # <<>>
    /\ frame.a[1].t = "BulkString"

\* C12: an Array whose first element is a BulkString that names none of
\* GET, SET, HGET, HSET, HGETALL, whatever stands behind it, parses as
\* Unrecognized; executing it answers the SimpleString OK and leaves both
\* maps of the backend as they were.
C12_UnknownIsUnrecognized ==
    [][(PipeHandle /\ NamedRequest(NextItem) /\ ~NamesCommand(NextItem.a[1].b))
          => /\ Command_try_from(NextItem) = CmdOk(Unrecognized)
             /\ conn'[Peer].pc = "send"
             /\ conn'[Peer].resp = RESP_OK
             /\ kv' = kv /\ hmap' = hmap]_vars

\* the command a name spells, as its documented name
Spelled(name) == CHOOSE n \in CommandNames : to_ascii_lowercase(name) = to_ascii_lowercase(n)

\* the total length of the array of each command
RequiredLength(n) ==
    CASE n = NAME_GET -> 2
      [] n = NAME_SET -> 3
      [] n = NAME_HGET -> 3
      [] n = NAME_HSET -> 4
      [] n = NAME_HGETALL -> 2

\* the places of the array at which the key and the field stand
TextPlaces(n) == IF n \in {NAME_HGET, NAME_HSET} THEN {2, 3} ELSE {2}

WellShapedFor(a, n) ==
    /\ Len(a) = RequiredLength(n)
    /\ \A p \in TextPlaces(n) : a[p].t = "BulkString"

WellShaped(frame) == WellShapedFor(frame.a, Spelled(frame.a[1].b))

KnownRequest(frame) == NamedRequest(frame) /\ NamesCommand(frame.a[1].b)

Rejected(exit) == exit \in {"InvalidCommand", "InvalidCommandArguments", "FromUtf8Error"}

\* C13: arity and shape - an array that names a known command parses only
\* when it has exactly the length of the command (GET 2, SET 3, HGET 3,
\* HSET 4, HGETALL 2) and a BulkString at every key and field place; any
\* other array with that name is rejected with a command error and nothing
\* is executed: both maps are after the rejection what they were before.
C13_ArityAndShape ==
    [][(PipeHandle /\ KnownRequest(NextItem))
          => /\ Command_try_from(NextItem).kind = "Ok" => WellShaped(NextItem)
             /\ ~WellShaped(NextItem)
                   => /\ conn'[Peer].pc = "closed"
                      /\ Rejected(conn'[Peer].exit)
                      /\ conn'[Peer].exit = Command_try_from(NextItem).kind
                      /\ conn'[Peer].resp = NoFrame
                      /\ kv' = kv /\ hmap' = hmap]_vars

\* after a SET and an HSET an HSET of five elements was rejected, the maps
\* holding what the two wrote
C13_Witness ==
    /\ Len(served) = 3
    /\ KnownRequest(served[3].req)
    /\ Spelled(served[3].req.a[1].b) = NAME_HSET
    /\ Len(served[3].req.a) = 5
    /\ served[3].exit = "InvalidCommandArguments"
    /\ DOMAIN kv = {ReqKey} /\ DOMAIN hmap = {ReqKey}

\* the request with its command name in lower case
Lowered(frame) ==
    RespArray(<<BulkString(to_ascii_lowercase(frame.a[1].b))>> \o Tail(frame.a))

CommandOf(n) ==
    CASE n = NAME_GET -> "Get"
      [] n = NAME_SET -> "Set"
      [] n = NAME_HGET -> "HGet"
      [] n = NAME_HSET -> "HSet"
      [] n = NAME_HGETALL -> "HGetAll"

\* C14: command names are case-insensitive - a well-formed request parses to
\* the same command in every upper/lower-case spelling of its name: the
\* command its lower-case spelling parses to, which is then executed.
C14_CaseInsensitive ==
    [][(PipeHandle /\ NextItem \in SpelledRequests)
          => /\ Command_try_from(NextItem).kind = "Ok"
             /\ Command_try_from(NextItem) = Command_try_from(Lowered(NextItem))
             /\ Command_try_from(NextItem).cmd.name = CommandOf(Spelled(NextItem.a[1].b))
             /\ conn'[Peer].pc = "send"]_vars

\* an HGETALL written in mixed case was answered with the pair an HSET wrote
C14_Witness ==
    /\ Len(served) = 3
    /\ served[3].req \in SpelledRequests
    /\ served[3].req.a[1].b \notin {NAME_HGETALL, to_ascii_lowercase(NAME_HGETALL)}
    /\ Spelled(served[3].req.a[1].b) = NAME_HGETALL
    /\ served[3].resp.t = "Array"

\* C15: command-level errors keep the connection alive - a decoded frame
\* that is not a legal command is answered with a SimpleError frame, and the
\* handler stays on the connection to send it and to serve the next request.
C15_CommandErrorAnswered ==
    [][(PipeHandle /\ Command_try_from(NextItem).kind # "Ok")
          => /\ conn'[Peer].pc = "send"
             /\ conn'[Peer].exit = "Running"
             /\ conn'[Peer].resp.t = "Error"]_vars

\* the decoder returned an error of the codec other than NotComplete
CodecFailed == out.kind \notin {"None", "Ok", "NotComplete", "Panic"}

\* nothing of the connection moves: no byte is taken, no decode is made
Halted == rbuf' = rbuf /\ wire' = wire /\ out' = out

\* the handler is still there, and its buffer is what the last decode left
\* with the bytes that arrived since behind it
Waiting == Alive /\ IsPrefix(out.after, rbuf)

\* C16: codec errors are fatal, Incomplete is not - after a decode error
\* other than NotComplete the handler has returned: no further byte of the
\* connection is read and no further decode is made; a NotComplete never
\* ends the handler, which takes the bytes that arrive and decodes again on
\* the buffer the last decode left, extended by what arrived.
C16_FatalUnlessIncomplete ==
    [][/\ CodecFailed => Halted
       /\ out'.kind = "NotComplete" => Waiting']_vars

\* a decode failed while bytes of the peer were still under way
C16_Witness == CodecFailed /\ wire # <<>> /\ out.before # <<>>

\* C17: per-connection ordering - the i-th request taken is the i-th of the
\* buffer, the i-th frame written to the peer is the response made for the
\* i-th request, also when the buffer held several requests at once; and a
\* request is only taken when the responses to all before it are written.
C17_ResponsesInOrder ==
    /\ \A i \in 1..Len(served) : served[i].req = script[i]
    /\ Len(outbox) <= Len(served)
    /\ \A i \in 1..Len(outbox) : outbox[i] = served[i].resp
    /\ Len(served) <= Len(outbox) + 1
    /\ conn[Peer].pc = "next" => Len(served) = Len(outbox)

\* two requests that came in one buffer are answered, with different frames
C17_Witness ==
    /\ Len(script) = 2
    /\ Len(outbox) = 2
    /\ outbox[1] # outbox[2]
    /\ conn[Peer].pc = "next"

\* the response to the i-th request taken is written, or is being written
Answered(i) == i <= Len(outbox) \/ (i = Len(served) /\ conn[Peer].pc = "send")

\* the connection ended with an error at the i-th request taken
EndedAt(i) ==
    /\ i = Len(served)
    /\ conn[Peer].pc = "closed"
    /\ conn[Peer].exit \notin {"Ok", "Running"}

\* C18: no error silently drops a request - every request taken from the
\* buffer has its one response written (or in the sending), or else the
\* connection has ended with an error at that request; no request is left
\* unanswered while the handler goes on to the next or ends without error.
C18_NoSilentDrop ==
    /\ \A i \in 1..Len(served) : Answered(i) \/ EndedAt(i)
    /\ Len(outbox) <= Len(served)
    /\ conn[Peer].pc = "closed" /\ conn[Peer].exit = "Ok" => Len(outbox) = Len(served)

\* the first request was answered, the second ended the connection with a
\* command error and no response
C18_Witness ==
    /\ Len(served) = 2
    /\ Len(outbox) = 1
    /\ served[2].req # Malformed
    /\ EndedAt(2)
    /\ Rejected(conn[Peer].exit)

\* what the backend holds under a key, and under a field of a key
KvEntry(m, k) == IF k \in DOMAIN m THEN Some(m[k]) ELSE None

HashEntry(h, k, f) == Backend_hget(h, k, f)

\* the keys other than k are present or absent in both, with the same hash
SameHashesBut(h1, h2, k) ==
    \A o \in Keys \ {k} : Backend_hgetall(h1, o) = Backend_hgetall(h2, o)

\* C19: no command mutates more than one logical key - SET k changes at
\* most the kv entry of k, HSET k f at most field f of the hash of k, and
\* GET, HGET, HGETALL and Unrecognized change nothing; every other key, hash
\* and field is after the command what it was before.
C19_OneKeyPerCommand ==
    [][/\ called'.name = "Set"
            => /\ hmap' = hmap
               /\ \A k \in Keys \ {called'.key} : KvEntry(kv', k) = KvEntry(kv, k)
               /\ DOMAIN kv' \subseteq DOMAIN kv \cup {called'.key}
       /\ called'.name = "HSet"
            => /\ kv' = kv
               /\ SameHashesBut(hmap', hmap, called'.key)
               /\ \A f \in Fields \ {called'.field} :
                      HashEntry(hmap', called'.key, f) = HashEntry(hmap, called'.key, f)
               /\ DOMAIN hmap' \subseteq DOMAIN hmap \cup {called'.key}
       /\ called'.name \in {"Get", "HGet", "HGetAll", "Unrecognized"}
            => kv' = kv /\ hmap' = hmap]_vars

\* a SET of one key was executed while the other key held another value and
\* a hash held two fields
C19_Witness ==
    /\ called.name = "Set"
    /\ DOMAIN kv = Keys
    /\ \E k \in Keys \ {called.key} : kv[k] # kv[called.key]
    /\ \E k \in DOMAIN hmap : Cardinality(DOMAIN hmap[k]) >= 2

\* the key or the field of a well-shaped request is not valid UTF-8
BadText(frame) ==
    /\ KnownRequest(frame)
    /\ WellShaped(frame)
    /\ \E p \in TextPlaces(Spelled(frame.a[1].b)) : ~IsUtf8(frame.a[p].b)

\* C20: a GET, SET, HGET, HSET or HGETALL request whose key or field is not
\* valid UTF-8 is rejected with the invalid-arguments command error, and
\* the backend is unchanged.
C20_BadTextIsInvalidArguments ==
    [][(PipeHandle /\ BadText(NextItem))
          => /\ Command_try_from(NextItem).kind = "InvalidCommandArguments"
             /\ kv' = kv /\ hmap' = hmap]_vars

\* ------------------------------------------------------------------------
\* The codec on streams of a wider byte universe: every integer of a range,
\* payloads with CR, LF and NUL, and streams no encoder writes.  The bytes
\* arrive whole and decode runs on the buffer as often as it returns.
\* ------------------------------------------------------------------------
IntRange == (0 - Pow10(MaxDigits))..Pow10(MaxDigits)

BinaryBytes == {0, 97, CR, LF}

Payloads == SeqsUpTo(BinaryBytes, MaxBulk)

\* a byte that is no type prefix
BAD == 120

Line(text) == text \o CRLF

\* frames whose encoding is the stream, each followed by what Tails gives
WireFrames ==
    {Integer(n) : n \in IntRange}
    \cup {BulkString(p) : p \in Payloads}
    \cup {RespArray(<<BulkString(p)>>) : p \in Payloads}
    \cup {RespArray(<<BulkString(p), Integer(1)>>) : p \in Payloads}

\* streams that begin with a byte that is no type prefix
BadPrefixStreams == {Line(<<BAD>>), Line(<<BAD, CH_1>>), <<BAD>> \o NULL}

\* composites whose next element begins with such a byte
BadElementStreams ==
    {Line(<<c, CH_1>>) \o Line(<<BAD>>) : c \in {STAR, TILDE}}
    \cup {Line(<<c, CH_1 + 1>>) \o NULL \o Line(<<BAD>>) : c \in {STAR, TILDE}}
    \cup {Line(<<STAR, CH_1>>) \o Line(<<STAR, CH_1>>) \o Line(<<BAD>>)}

\* length headers that are no number, or negative and not the sentinel
BadLengthStreams ==
    {Line(<<c, BAD>>) \o NULL : c \in {DOLLAR, STAR, TILDE, PERCENT}}
    \cup {Line(<<c, MINUS, CH_1 + 1>>) \o NULL : c \in {DOLLAR, STAR, TILDE, PERCENT}}
    \cup {Line(<<c, MINUS, CH_1>>) \o NULL : c \in {TILDE, PERCENT}}

MalformedStreams == BadPrefixStreams \cup BadElementStreams \cup BadLengthStreams

WireInit ==
    /\ \/ sent \in WireFrames /\ tail \in Tails /\ wire = Written
       \/ sent = NoFrame /\ tail \in MalformedStreams /\ wire = tail
    /\ rbuf = <<>>
    /\ out = [kind |-> "None", frame |-> NoFrame, before |-> <<>>, after |-> <<>>]
    /\ StoreInit /\ CallInit /\ ConnInit /\ PipeIdle

WireNext == ReceiveRest \/ CodecDecode

SpecWire == WireInit /\ [][WireNext]_vars

\* the stream of an encoded frame, and decode was called on the whole of it
DecodedWhole == sent # NoFrame /\ Called /\ out.before = Written

Magnitude(n) == IF n < 0 THEN 0 - n ELSE n

\* C21: integer encoding carries an explicit sign - n >= 0, 0 included,
\* encodes as ":+n\r\n" and n < 0 as ":-|n|\r\n", and decoding that
\* encoding returns n, for every n of a signed range with its two ends.
C21_IntegerSigned ==
    sent.t = "Integer"
        => /\ RespFrame_encode(sent)
                = <<COLON, IF sent.n < 0 THEN MINUS ELSE PLUS>>
                      \o FormatUnsigned(Magnitude(sent.n)) \o CRLF
           /\ DecodedWhole => out.kind = "Ok" /\ out.frame = sent /\ out.after = tail

\* the lower end of the range was decoded from its encoding
C21_Witness ==
    /\ sent = Integer(0 - Pow10(MaxDigits))
    /\ DecodedWhole
    /\ out.frame = sent

\* the buffer given to the last decode begins with the sentinel
GivenSentinel(sentinel) == Called /\ StartsWith(out.before, sentinel)

\* the last decode returned the frame and consumed the sentinel's bytes
TookSentinel(sentinel, frame) ==
    /\ out.kind = "Ok"
    /\ out.frame = frame
    /\ out.after = Advance(out.before, Len(sentinel))

\* the buffer given is a '$' or '*' buffer too short for a sentinel
ShortOfSentinel ==
    /\ Called
    /\ out.before # <<>>
    /\ out.before[1] \in {DOLLAR, STAR}
    /\ Len(out.before) < Len(NULL_ARRAY)

\* C22: null sentinel dispatch - the generic decode on a buffer beginning
\* with "$-1\r\n" returns NullBulkString and on one beginning with "*-1\r\n"
\* returns NullArray, each consuming the 5 bytes; and a probe that lacks
\* bytes is answered NotComplete and does not fall through.
C22_SentinelDispatch ==
    /\ GivenSentinel(NULL_BULK_STRING) => TookSentinel(NULL_BULK_STRING, RespNullBulkString)
    /\ GivenSentinel(NULL_ARRAY) => TookSentinel(NULL_ARRAY, RespNullArray)
    /\ ShortOfSentinel => out.kind = "NotComplete"

\* an Array, a Set or a BulkString of length zero, the three alone or as
\* the one element of an Array
EmptyContainers == {RespArray(<<>>), RespSet(<<>>), BulkString(<<>>)}

ZeroLength == EmptyContainers \cup {RespArray(<<f>>) : f \in EmptyContainers}

\* C23: a zero-length container is a complete frame - the generic decode of
\* a buffer holding exactly "*0\r\n", "~0\r\n" or "$0\r\n\r\n" returns the
\* empty Array, the empty Set, the empty BulkString, at top level and as an
\* element of an enclosing Array, and "*-1\r\n" returns NullArray.
C23_ZeroLengthComplete ==
    (Called /\ out.before = Encoded /\ sent \in ZeroLength \cup {RespNullArray})
        => out.kind = "Ok" /\ out.frame = sent /\ out.after = <<>>

\* the payloads the frame sent carries
SentPayloads ==
    IF sent.t = "BulkString" THEN {sent.b}
    ELSE IF sent.t = "Array" THEN {sent.a[i].b : i \in {j \in 1..Len(sent.a) : sent.a[j].t = "BulkString"}}
    ELSE {}

HasByte(p, b) == \E i \in 1..Len(p) : p[i] = b

\* C24: BulkString is binary-safe - for every payload p, with CR, LF, the
\* pair CRLF or NUL in it, decoding "$<len(p)>\r\n" ++ p ++ "\r\n" returns
\* BulkString(p) with its len(p) bytes, at top level and as an element of an
\* Array, and leaves what follows the frame: the end of the frame is where
\* the length says, not at a CRLF of p.
C24_BinarySafe ==
    (DecodedWhole /\ SentPayloads # {})
        => /\ out.kind = "Ok"
           /\ out.frame = sent
           /\ out.after = tail

\* a payload that is CR LF, or holds NUL, came back from a decode as the
\* element of an Array with bytes of a next frame behind it
C24_Witness ==
    /\ DecodedWhole
    /\ sent.t = "Array"
    /\ out.frame = sent
    /\ tail # <<>>
    /\ \E p \in SentPayloads : p = CRLF \/ HasByte(p, 0)

\* T::expect_length(buf) for the type T of frame f
ExpectLengthOf(f, buf) ==
    CASE f.t = "SimpleString" -> SimpleString_expect_length(buf)
      [] f.t = "Error" -> SimpleError_expect_length(buf)
      [] f.t = "Integer" -> i64_expect_length(buf)
      [] f.t = "BulkString" -> BulkString_expect_length(buf)
      [] f.t = "NullBulkString" -> RespNullBulkString_expect_length(buf)
      [] f.t = "Array" -> RespArray_expect_length(buf)
      [] f.t = "NullArray" -> RespNullArray_expect_length(buf)
      [] f.t = "Null" -> RespNull_expect_length(buf)
      [] f.t = "Boolean" -> bool_expect_length(buf)
      [] f.t = "Set" -> RespSet_expect_length(buf)

\* C25: expect_length agrees with the encoder - with a complete encoded
\* frame E at the front of the buffer, the expect_length of its type
\* returns len(E): header, CRLF, payload, CRLF for a BulkString, 5, 5, 3, 4
\* for NullBulkString, NullArray, Null, Boolean, and for an Array or Set the
\* header plus the lengths of its children, as calc_total_len sums them.
C25_ExpectLengthOfEncoding ==
    (Called /\ IsPrefix(Encoded, out.before))
        => ExpectLengthOf(sent, out.before) = Ok(Len(Encoded))

\* decode was called on the whole of a stream of the set
GivenWhole(streams) == sent = NoFrame /\ tail \in streams /\ Called /\ out.before = tail

\* the last decode returned an error that ends the connection
ReportedMalformed == out.kind \notin {"None", "Ok", "NotComplete", "Panic"}

\* C26: a malformed stream is an error, not Incomplete - on a buffer that
\* begins with a byte that is no type prefix, or holds a composite whose
\* next element begins with such a byte, or carries a length that is no
\* number or is negative and not the sentinel, decode returns an error
\* other than NotComplete.
C26_MalformedIsError ==
    /\ GivenWhole(BadPrefixStreams) => ReportedMalformed
    /\ GivenWhole(BadElementStreams) => ReportedMalformed
    /\ GivenWhole(BadLengthStreams) => ReportedMalformed

\* the command whose response connection c is about to write
Answering(c) == Command_try_from(conn[c].req).cmd

\* the write of cmd, made for connection c, is in the maps: the key holds
\* what was written to it last, which is the value of cmd unless another
\* connection has written the key since
WriteVisible(c, cmd) ==
    /\ cmd.name = "Set"
          => /\ cmd.key \in DOMAIN kv
             /\ kv[cmd.key] = lastSet[cmd.key]
             /\ setBy[cmd.key] = {c} => kv[cmd.key] = cmd.value
    /\ cmd.name = "HSet"
          => /\ Backend_hget(hmap, cmd.key, cmd.field) # None
             /\ hmap[cmd.key][cmd.field] = lastHSet[cmd.key][cmd.field]

\* C27: mutation before response - while the OK of a SET or HSET is still
\* to be written to its connection the write is already in the backend,
\* where every connection reads it: a GET of the key, on any connection,
\* gets the value written or one written after it, never an older one.
C27_WriteBeforeResponse ==
    /\ \A c \in Conns : conn[c].pc = "send"
          => /\ Answering(c).name \in {"Set", "HSet"} => conn[c].resp = RESP_OK
             /\ WriteVisible(c, Answering(c))
    /\ \A k \in DOMAIN kv : kv[k] = lastSet[k]

\* the OK of a SET is not yet written and another connection has already
\* read the value with GET
C27_Witness ==
    \E c, d \in Conns :
        /\ c # d
        /\ conn[c].pc = "send" /\ Answering(c).name = "Set"
        /\ conn[d].pc = "send" /\ conn[d].req = GetRequest
        /\ conn[d].resp = Answering(c).value

\* C28: decode is total - on every buffer, the truncated composites among
\* them (an Array whose last element is a BulkString or a Boolean cut
\* short), decode and expect_length return Ok or a RespError and never
\* slice past the end of the buffer.
C28_DecodeTotal ==
    /\ out.kind # "Panic"
    /\ RespFrame_expect_length(rbuf).kind # "Panic"

\* what HGETALL of key k answers from hash map h, in every order of
\* iteration, sorted or not
HGetAllAnswers(h, k) ==
    {HGetAll_execute(HGetAll(k, b), h, o) :
        b \in BOOLEAN, o \in IterOrders(h, HGetAll(k, FALSE))}

\* C29: the flat map and the hash map are separate namespaces - after any
\* sequence of commands a SET of key k leaves what HGET k f and HGETALL k
\* answer as it was, and an HSET of k leaves what GET k answers as it was.
C29_SeparateNamespaces ==
    [][/\ called'.name = "Set"
            => /\ \A f \in Fields :
                      HGet_execute(HGet(called'.key, f), hmap')
                          = HGet_execute(HGet(called'.key, f), hmap)
               /\ HGetAllAnswers(hmap', called'.key) = HGetAllAnswers(hmap, called'.key)
       /\ called'.name = "HSet"
            => Get_execute(Get(called'.key), kv') = Get_execute(Get(called'.key), kv)]_vars

\* a SET of a key was executed while the same key had a hash of two fields
\* and a flat value, the two different
C29_Witness ==
    /\ called.name = "Set"
    /\ called.key \in DOMAIN hmap
    /\ Cardinality(DOMAIN hmap[called.key]) >= 2
    /\ \E f \in DOMAIN hmap[called.key] : hmap[called.key][f] # kv[called.key]

\* C30: an HGETALL parsed from a frame of the wire has sort = false - no
\* request taken by the connection loop makes an HGetAll with sort = true,
\* so the answer over the wire is in the order the hash is iterated in.
C30_WireHGetAllUnsorted ==
    [][(PipeHandle /\ Command_try_from(NextItem).kind = "Ok"
                   /\ Command_try_from(NextItem).cmd.name = "HGetAll")
          => /\ Command_try_from(NextItem).cmd.sort = FALSE
             /\ conn'[Peer].resp
                   \in {HGetAll_execute(HGetAll(Command_try_from(NextItem).cmd.key, FALSE),
                                        hmap, o) :
                           o \in IterOrders(hmap, Command_try_from(NextItem).cmd)}]_vars

\* an HGETALL over the wire was answered with field b before field a
C30_Witness ==
    /\ Len(served) = 3
    /\ KnownRequest(served[3].req)
    /\ Spelled(served[3].req.a[1].b) = NAME_HGETALL
    /\ served[3].resp.t = "Array"
    /\ Len(served[3].resp.a) = 4
    /\ served[3].resp.a[1] = BulkString(<<98>>)
    /\ served[3].resp.a[3] = BulkString(<<97>>)

====
